---- MODULE Spec2Model ----
(***************************************************************************)
(* A model of the Slack interactive-component webhook receiver:            *)
(*   python/server.py              signature gate + action dispatch        *)
(*   python/server_aws_example.py  the AWS-integrated variant              *)
(*   python/aws_integration.py     K8sAPIClient / S3ContentManager         *)
(*                                                                         *)
(* Strings that the code transforms character by character (identifiers    *)
(* that pass through urllib.parse.unquote_plus) are sequences of one-      *)
(* character strings.  Bytes and Unicode code points are integers.  A JSON *)
(* document is a record of tagged values; every JSON value carries the     *)
(* same fields so that any two of them can be compared.                    *)
(***************************************************************************)
EXTENDS Integers, Sequences, FiniteSets, TLC

(***************************************************************************)
(* Bounds of the model.                                                    *)
(***************************************************************************)
\* time.time() when the model starts, in seconds
StartTime == 1000
\* how many seconds the clock may advance
MaxTick == 1
\* longest free-text byte string carried in a request body
MaxText == 2

(***************************************************************************)
(* Program constants.                                                      *)
(***************************************************************************)
\* server.py:88  abs(time.time() - timestamp_int) > 300
ReplayWindow == 300

(***************************************************************************)
(* Character strings.                                                      *)
(***************************************************************************)
send_channel_message == <<"s","e","n","d","_","c","h","a","n","n","e","l","_","m","e","s","s","a","g","e">>
send_user_message == <<"s","e","n","d","_","u","s","e","r","_","m","e","s","s","a","g","e">>
test_action == <<"t","e","s","t","_","a","c","t","i","o","n">>
\* identifiers no handler is registered for
bogus == <<"b","o","g","u","s">>
k8s_ == <<"k","8","s","_">>
k8s_deploy == k8s_ \o <<"d","e","p","l","o","y">>
k8s_scale == k8s_ \o <<"s","c","a","l","e">>
k8s_status == k8s_ \o <<"s","t","a","t","u","s">>
k8s_logs == k8s_ \o <<"l","o","g","s">>
k8s_restart == k8s_ \o <<"r","e","s","t","a","r","t">>
k8s_bogus == k8s_ \o bogus
s3_ == <<"s","3","_">>
s3_share_link == s3_ \o <<"s","h","a","r","e","_","l","i","n","k">>
s3_share_image == s3_ \o <<"s","h","a","r","e","_","i","m","a","g","e">>
s3_upload == s3_ \o <<"u","p","l","o","a","d">>
s3_bogus == s3_ \o bogus
ChannelC1 == <<"C","1">>
ChannelCplus1 == <<"C","+","1">>
UserU1 == <<"U","1">>
test_pct_action == <<"t","e","s","t","%","5","F","a","c","t","i","o","n">>
EmptyStr == << >>

\* str.startswith
startswith(s, prefix) == Len(s) >= Len(prefix) /\ SubSeq(s, 1, Len(prefix)) = prefix

\* The %XX escapes that occur in the model's strings, with the character
\* each decodes to.
HexPairs == { <<"2","B">>, <<"2","5">>, <<"5","F">>, <<"2","0">> }

HexChar(p) ==
    CASE p = <<"2","B">> -> "+"
      [] p = <<"2","5">> -> "%"
      [] p = <<"5","F">> -> "_"
      [] p = <<"2","0">> -> " "

\* urllib.parse.unquote_plus: '+' becomes a space, then every %XX with two
\* hexadecimal digits becomes the character it encodes; a '%' that is not
\* followed by two hexadecimal digits is left alone.
RECURSIVE unquote_plus(_)
unquote_plus(s) ==
    IF s = << >> THEN << >>
    ELSE IF Head(s) = "+" THEN <<" ">> \o unquote_plus(Tail(s))
    ELSE IF Head(s) = "%" /\ Len(s) >= 3 /\ SubSeq(s, 2, 3) \in HexPairs
         THEN <<HexChar(SubSeq(s, 2, 3))>> \o unquote_plus(SubSeq(s, 4, Len(s)))
    ELSE <<Head(s)>> \o unquote_plus(Tail(s))

\* urllib.parse.quote_plus, as the sender of a form-encoded body applies it:
\* a space becomes '+', and '+' and '%' are escaped; letters, digits and '_'
\* are kept.
RECURSIVE quote_plus(_)
quote_plus(s) ==
    IF s = << >> THEN << >>
    ELSE (CASE Head(s) = " " -> <<"+">>
            [] Head(s) = "+" -> <<"%","2","B">>
            [] Head(s) = "%" -> <<"%","2","5">>
            [] OTHER -> <<Head(s)>>) \o quote_plus(Tail(s))

(***************************************************************************)
(* UTF-8.  request.get_data(as_text=True) decodes the body with            *)
(* errors="replace"; str.encode() encodes it again.                        *)
(***************************************************************************)
ReplacementChar == 65533

IsContinuation(b) == b >= 128 /\ b <= 191
IsLead2(b) == b >= 194 /\ b <= 223

\* bytes.decode('utf-8', errors='replace') for one- and two-byte sequences:
\* a byte that does not start a valid sequence decodes to U+FFFD.
RECURSIVE utf8_decode(_)
utf8_decode(bs) ==
    IF bs = << >> THEN << >>
    ELSE IF Head(bs) < 128 THEN <<Head(bs)>> \o utf8_decode(Tail(bs))
    ELSE IF IsLead2(Head(bs)) /\ Len(bs) >= 2 /\ IsContinuation(bs[2])
         THEN <<(Head(bs) - 192) * 64 + (bs[2] - 128)>> \o utf8_decode(SubSeq(bs, 3, Len(bs)))
    ELSE <<ReplacementChar>> \o utf8_decode(Tail(bs))

\* str.encode('utf-8') for code points below U+10000.
RECURSIVE utf8_encode(_)
utf8_encode(cs) ==
    IF cs = << >> THEN << >>
    ELSE (IF Head(cs) < 128 THEN <<Head(cs)>>
          ELSE IF Head(cs) < 2048
               THEN <<192 + (Head(cs) \div 64), 128 + (Head(cs) % 64)>>
          ELSE <<224 + (Head(cs) \div 4096),
                 128 + ((Head(cs) \div 64) % 64),
                 128 + (Head(cs) % 64)>>) \o utf8_encode(Tail(cs))

(***************************************************************************)
(* JSON documents.                                                         *)
(***************************************************************************)
\* a string-valued member, or its absence (dict.get returns None)
AbsentId == [t |-> "absent", s |-> EmptyStr]
StrId(s) == [t |-> "str", s |-> s]

\* the first element of "actions"
\* the "value" member of an action: absent, a string that is the JSON text of
\* an object (with its "key" member, "" when it has none), a string that is
\* not a JSON text, or (wrong shape) a number
NoValue == [t |-> "absent", key |-> ""]
ObjValue(k) == [t |-> "obj", key |-> k]
TextValue == [t |-> "text", key |-> ""]
NumValue == [t |-> "num", key |-> ""]

NoAction == [t |-> "none", action_id |-> AbsentId, value |-> NoValue]
ObjAction(a) == [t |-> "obj", action_id |-> a, value |-> NoValue]
ObjActionWith(a, v) == [t |-> "obj", action_id |-> a, value |-> v]
StrAction == [t |-> "str", action_id |-> AbsentId, value |-> NoValue]

\* the "actions" member: absent, a list, or (wrong shape) a non-empty string
AbsentActions == [t |-> "absent", first |-> NoAction]
ListActions(f) == [t |-> "list", first |-> f]
StrActions == [t |-> "str", first |-> NoAction]

\* the "user" and "channel" members: absent, an object, or (wrong shape) a string
AbsentField == [t |-> "absent", id |-> AbsentId]
ObjField(i) == [t |-> "obj", id |-> i]
StrField == [t |-> "str", id |-> AbsentId]

ObjectDoc(a, u, c) == [t |-> "object", actions |-> a, user |-> u, channel |-> c]
\* a JSON text whose top-level value is not an object
NonObjectDoc(t) == [t |-> t, actions |-> AbsentActions, user |-> AbsentField, channel |-> AbsentField]
NoDoc == NonObjectDoc("none")

\* d with f applied to every string in it
unquote_id(i) == [i EXCEPT !.s = unquote_plus(i.s)]
quote_id(i) == [i EXCEPT !.s = quote_plus(i.s)]
unquote_doc(d) ==
    [d EXCEPT !.actions.first.action_id = unquote_id(@),
              !.user.id = unquote_id(@),
              !.channel.id = unquote_id(@)]
quote_doc(d) ==
    [d EXCEPT !.actions.first.action_id = quote_id(@),
              !.user.id = quote_id(@),
              !.channel.id = quote_id(@)]

(***************************************************************************)
(* Request bodies as they travel on the wire.                              *)
(*   enc  "none"        no body                                            *)
(*        "text"        characters that are not a JSON text                *)
(*        "json"        the JSON text of doc                               *)
(*        "form"        payload=<quote_plus of the JSON text of doc>       *)
(*        "form_empty"  the form field payload= with no value              *)
(*   doc  the JSON document as serialised in the body (for "form", with    *)
(*        its strings percent-encoded)                                     *)
(*   text the bytes of a free-text string value inside the body; in this   *)
(*        model the only place that carries bytes outside ASCII            *)
(***************************************************************************)
Body(e, d, x) == [enc |-> e, doc |-> d, text |-> x]
EmptyBody == Body("none", NoDoc, << >>)
JsonBody(d, x) == Body("json", d, x)
\* what a sender does to form-encode the payload d
FormBody(d) == Body("form", quote_doc(d), << >>)

\* The payload the sender serialised into the body: for a form-encoded body,
\* the value of its payload field percent-decoded once.
SentPayload(b) == IF b.enc = "form" THEN unquote_doc(b.doc) ELSE b.doc

\* request.get_data(as_text=True): the body decoded as UTF-8 with replacement.
get_data_as_text(b) == [b EXCEPT !.text = utf8_decode(@)]
\* str.encode(): back to bytes
encode(b) == [b EXCEPT !.text = utf8_encode(@)]

(***************************************************************************)
(* Headers and signatures.                                                 *)
(***************************************************************************)
\* X-Slack-Request-Timestamp: missing (or empty), characters int() rejects,
\* the decimal digits of val, or the digits of an integer above the largest
\* float (1 followed by 400 zeros).
MissingTimestamp == [kind |-> "missing", val |-> 0]
TextTimestamp == [kind |-> "text", val |-> 0]
IntTimestamp(n) == [kind |-> "int", val |-> n]
HugeTimestamp == [kind |-> "huge", val |-> 0]

\* hmac.new(key, msg, hashlib.sha256).hexdigest(), taken to be collision
\* free: two digests are equal exactly when key and message are equal.
hmac_sha256_hex(key, msg) == [key |-> key, msg |-> msg]
\* the bytes of f'v0:{timestamp}:{body}'
BaseString(ts, bytes) == [ts |-> ts, body |-> bytes]

\* X-Slack-Signature: missing (or empty), ASCII characters, or characters
\* outside ASCII.
MissingSignature == [kind |-> "missing", prefix |-> "", hex |-> hmac_sha256_hex("", BaseString(MissingTimestamp, EmptyBody))]
AsciiSignature(p, h) == [kind |-> "ascii", prefix |-> p, hex |-> h]
BadSignature == AsciiSignature("v0=", hmac_sha256_hex("bad", BaseString(MissingTimestamp, EmptyBody)))
NonAsciiSignature == [kind |-> "nonascii", prefix |-> "v0=", hex |-> hmac_sha256_hex("bad", BaseString(MissingTimestamp, EmptyBody))]

\* test_server.py sign_body, and Slack itself: the signature of the body
\* bytes as sent.
sign_body(secret, ts, b) == AsciiSignature("v0=", hmac_sha256_hex(secret, BaseString(ts, b)))

(***************************************************************************)
(* State.                                                                  *)
(***************************************************************************)
VARIABLES
    SLACK_SIGNING_SECRET,   \* server.py module globals, read once at import
    SLACK_BOT_TOKEN,
    DEFAULT_MESSAGE,
    clock,                  \* time.time(), whole seconds
    pc,                     \* where the request in flight is
    request,                \* the request in flight (or the last one answered)
    response,               \* the response sent for it
    fault,                  \* the exception that left a view or hook unhandled
    gate,                   \* what _verify_slack_signature did for this request
    gate_time,              \* time.time() as _verify_slack_signature read it
    upstream,               \* what the chat.postMessage call made for this request did
    parsed,                 \* parse_payload was called for this request
    handler_ran,            \* the route's view function was entered
    calls                   \* chat.postMessage calls made for this request

server_vars == <<SLACK_SIGNING_SECRET, SLACK_BOT_TOKEN, DEFAULT_MESSAGE, clock, pc,
                 request, response, fault, gate, gate_time, upstream, parsed,
                 handler_ran, calls>>

config == <<SLACK_SIGNING_SECRET, SLACK_BOT_TOKEN, DEFAULT_MESSAGE>>

(***************************************************************************)
(* Responses.                                                              *)
(***************************************************************************)
Response(body, status) == [status |-> status, body |-> body, detail |-> EmptyStr]
ResponseWith(body, detail, status) == [status |-> status, body |-> body, detail |-> detail]
NoResponse == Response("", 0)
\* Flask's answer when a before_request hook or a view raises an exception
\* no handler is registered for
InternalServerError == Response("Internal Server Error (werkzeug)", 500)

(***************************************************************************)
(* server.py _verify_slack_signature                                       *)
(***************************************************************************)
Abs(n) == IF n < 0 THEN -n ELSE n

Returned(v) == [ret |-> v, exc |-> "none"]
Raised(e) == [ret |-> FALSE, exc |-> e]

\* hmac.compare_digest(expected, signature) on two str arguments
compare_digest(expected, signature) ==
    IF signature.kind = "nonascii" THEN Raised("TypeError")
    ELSE Returned(expected = signature)

\* the bytes handed to hmac.new: f'v0:{timestamp}:{body text}'.encode()
signing_payload(req) ==
    BaseString(req.timestamp, encode(get_data_as_text(req.body)))

\* _verify_slack_signature without its first check (lines 74-76)
verify_without_secret_check(req) ==
    IF req.timestamp.kind = "missing" \/ req.signature.kind = "missing"
    THEN Returned(FALSE)
    ELSE IF req.timestamp.kind = "text" THEN Returned(FALSE)
    ELSE IF req.timestamp.kind = "huge" THEN Raised("OverflowError")
    ELSE IF Abs(clock - req.timestamp.val) > ReplayWindow THEN Returned(FALSE)
    ELSE compare_digest(
            AsciiSignature("v0=", hmac_sha256_hex(SLACK_SIGNING_SECRET, signing_payload(req))),
            req.signature)

\* _verify_slack_signature without the try/except around int(timestamp)
verify_without_except(req) ==
    IF SLACK_SIGNING_SECRET = "" THEN Returned(FALSE)
    ELSE IF req.timestamp.kind = "missing" \/ req.signature.kind = "missing"
         THEN Returned(FALSE)
    ELSE IF req.timestamp.kind = "text" THEN Raised("ValueError")
    ELSE IF req.timestamp.kind = "huge" THEN Raised("OverflowError")
    ELSE IF Abs(clock - req.timestamp.val) > ReplayWindow THEN Returned(FALSE)
    ELSE compare_digest(
            AsciiSignature("v0=", hmac_sha256_hex(SLACK_SIGNING_SECRET, signing_payload(req))),
            req.signature)

_verify_slack_signature(req) ==
    IF SLACK_SIGNING_SECRET = "" THEN Returned(FALSE)
    ELSE IF req.timestamp.kind = "missing" \/ req.signature.kind = "missing"
         THEN Returned(FALSE)
    ELSE IF req.timestamp.kind = "text" THEN Returned(FALSE)
    ELSE IF req.timestamp.kind = "huge" THEN Raised("OverflowError")
    ELSE IF Abs(clock - req.timestamp.val) > ReplayWindow THEN Returned(FALSE)
    ELSE compare_digest(
            AsciiSignature("v0=", hmac_sha256_hex(SLACK_SIGNING_SECRET, signing_payload(req))),
            req.signature)

(***************************************************************************)
(* server.py parse_payload                                                 *)
(***************************************************************************)
ParsedDoc(d) == [exc |-> "none", msg |-> "", doc |-> d]
ParseError(m) == [exc |-> "ValueError", msg |-> m, doc |-> NoDoc]

\* urllib.parse.parse_qs(body)['payload'][0]
parse_qs_payload(body) == unquote_doc(body.doc)

parse_payload(req) ==
    LET body == get_data_as_text(req.body) IN
    IF body.enc = "none" THEN ParseError("Payload is required")
    ELSE IF body.enc = "form"
         THEN ParsedDoc(unquote_doc(parse_qs_payload(body)))
    ELSE IF body.enc = "json" THEN ParsedDoc(body.doc)
    ELSE ParseError("json.JSONDecodeError")

(***************************************************************************)
(* server.py send_slack_message and handle_actions                         *)
(***************************************************************************)
\* Python truth value of a string-or-None
Truthy(i) == i.t = "str" /\ i.s # EmptyStr

\* what the chat.postMessage call does once it is made
UpstreamOutcomes == {"ok", "http_error", "not_ok", "bad_json"}

Result(resp, exc, made) == [response |-> resp, exc |-> exc, calls |-> made]
Unhandled(e) == Result(InternalServerError, e, << >>)

\* the except clauses of handle_actions
CaughtValueError(msg, made) == Result(Response(msg, 400), "none", made)
CaughtUpstream(made) == Result(Response("Internal server error", 500), "none", made)

\* send_slack_message(channel_id, text), followed by what handle_actions
\* does with its result
send_slack_message(channel_id, text, outcome) ==
    IF ~Truthy(channel_id) \/ text = "" \/ SLACK_BOT_TOKEN = ""
    THEN CaughtValueError("Missing required parameters", << >>)
    ELSE LET made == << [channel |-> channel_id.s, text |-> text] >> IN
         CASE outcome = "ok" -> Result(Response("", 200), "none", made)
           [] outcome = "http_error" -> CaughtUpstream(made)
           [] outcome = "not_ok" -> CaughtUpstream(made)
           [] outcome = "bad_json" -> CaughtValueError("requests.JSONDecodeError", made)

dispatch(action_id, user_id, channel_id, outcome) ==
    IF action_id.s = send_channel_message
    THEN send_slack_message(channel_id, DEFAULT_MESSAGE, outcome)
    ELSE IF action_id.s = send_user_message
    THEN send_slack_message(user_id, DEFAULT_MESSAGE, outcome)
    ELSE IF action_id.s = test_action
    THEN send_slack_message(channel_id, DEFAULT_MESSAGE, outcome)
    ELSE Result(ResponseWith("Unknown action_id: ", action_id.s, 400), "none", << >>)

handle_actions(req, outcome) ==
    LET p == parse_payload(req) IN
    IF p.exc # "none" THEN CaughtValueError(p.msg, << >>)
    ELSE IF p.doc.t # "object" THEN Unhandled("AttributeError")
    ELSE LET actions == p.doc.actions IN
         IF actions.t = "str" \/ (actions.t = "list" /\ actions.first.t = "str")
         THEN Unhandled("AttributeError")
         ELSE LET action_id == IF actions.t = "list" /\ actions.first.t = "obj"
                               THEN actions.first.action_id
                               ELSE AbsentId
              IN
              IF ~Truthy(action_id)
              THEN Result(Response("Missing action_id", 400), "none", << >>)
              ELSE IF p.doc.user.t = "str" \/ p.doc.channel.t = "str"
                   THEN Unhandled("AttributeError")
                   ELSE dispatch(action_id, p.doc.user.id, p.doc.channel.id, outcome)

(***************************************************************************)
(* server_aws_example.py: the variant with K8s and S3 actions.             *)
(***************************************************************************)
VARIABLES
    app,            \* which program this process runs: "server" or "aws"
    k8s_client,     \* server_aws_example.py module global: TRUE when set
    s3_manager,     \* module global: [present, bucket]
    effects,        \* outbound calls server_aws_example.py made for this request
    relay,          \* what download_and_upload_to_slack did for this request
    threads         \* the requests to /slack/s3/share in flight, one per thread

aws_vars == <<app, k8s_client, s3_manager, effects, relay, threads>>
vars == <<server_vars, aws_vars>>

\* S3_BUCKET as configured at startup
S3_BUCKET == "configured-bucket"

ChatEffect(channel, text) == [kind |-> "chat", endpoint |-> "chat.postMessage", channel |-> channel, text |-> text]
K8sEffect(endpoint) == [kind |-> "k8s", endpoint |-> endpoint, channel |-> EmptyStr, text |-> ""]
S3Effect(op, bucket) == [kind |-> "s3", endpoint |-> op, channel |-> EmptyStr, text |-> bucket]

\* files.upload, the request download_and_upload_to_slack posts to Slack
UploadEffect(channel) == [kind |-> "chat", endpoint |-> "files.upload", channel |-> channel, text |-> ""]

\* One call of download_and_upload_to_slack: whether the temporary file it
\* created is still on disk when it exits, the exception that leaves it, and
\* the failure that happened first.
Relay(tmp, raised, cause) == [tmp |-> tmp, raised |-> raised, cause |-> cause]
NoRelay == Relay("none", "none", "none")

Step(exc, made) == [exc |-> exc, effects |-> made]
AwsResult(resp, made) == [response |-> resp, effects |-> made, relay |-> NoRelay]

\* what the outbound calls of one request do: the K8s API call, the S3
\* operation, the first chat message and the chat message sent from an
\* except clause
AwsOutcomes ==
    [api : {"ok", "http_error", "no_credentials"}, s3 : {"ok", "fail"},
     upload : {"ok", "transport_error", "http_error", "not_ok"},
     chat1 : {"ok", "fail"}, chat2 : {"ok", "fail"}]

\* server_aws_example.py send_slack_message(channel_id, text, blocks)
aws_send_slack_message(channel_id, text, outcome) ==
    IF ~Truthy(channel_id) \/ SLACK_BOT_TOKEN = ""
    THEN Step("ValueError", << >>)
    ELSE Step(IF outcome = "ok" THEN "none" ELSE "RuntimeError",
              << ChatEffect(channel_id.s, text) >>)

\* aws_integration.py K8sAPIClient.call_api: endpoint_map.get(action_id, default)
endpoint_map(action_id) ==
    CASE action_id = k8s_deploy -> "/api/v1/deploy"
      [] action_id = k8s_scale -> "/api/v1/scale"
      [] action_id = k8s_status -> "/api/v1/status"
      [] action_id = k8s_logs -> "/api/v1/logs"
      [] action_id = k8s_restart -> "/api/v1/restart"
      [] OTHER -> "/api/v1/default"

call_api(action_id, outcome) ==
    IF outcome = "no_credentials" THEN Step("ValueError", << >>)
    ELSE Step(IF outcome = "ok" THEN "none" ELSE "HTTPError",
              << K8sEffect(endpoint_map(action_id)) >>)

\* the outer except clauses of server_aws_example.py handle_actions
aws_outer_except(exc, msg, made) ==
    IF exc = "ValueError" THEN AwsResult(Response(msg, 400), made)
    ELSE AwsResult(Response("Internal server error", 500), made)

\* an inner "except Exception as e": post the error to the channel, answer 500
aws_inner_except(body, channel_id, made, o) ==
    LET c2 == aws_send_slack_message(channel_id, "Error: str(e)", o.chat2) IN
    IF c2.exc = "none" THEN AwsResult(Response(body, 500), made \o c2.effects)
    ELSE aws_outer_except(c2.exc, "Missing required parameters", made \o c2.effects)

\* a chat message inside an inner try, then the response `resp`
aws_chat_then(resp, errbody, channel_id, text, made, o) ==
    LET c1 == aws_send_slack_message(channel_id, text, o.chat1) IN
    IF c1.exc = "none" THEN AwsResult(resp, made \o c1.effects)
    ELSE aws_inner_except(errbody, channel_id, made \o c1.effects, o)

aws_k8s_branch(action_id, channel_id, o) ==
    LET api == call_api(action_id.s, o.api) IN
    IF api.exc # "none" THEN aws_inner_except("K8s API error", channel_id, api.effects, o)
    ELSE aws_chat_then(Response("", 200), "K8s API error", channel_id,
                       "Action completed", api.effects, o)

\* S3ContentManager methods, each one S3 operation on the manager's bucket
s3_operation(op, outcome) ==
    Step(IF outcome = "ok" THEN "none" ELSE "ClientError", << S3Effect(op, s3_manager.bucket) >>)

\* aws_integration.py S3ContentManager.download_and_upload_to_slack.  The
\* temporary file is created with delete=False; tmp_path is bound after the
\* download, and the finally clause reads it.
download_and_upload_to_slack(channel, o) ==
    LET download == S3Effect("download_fileobj", s3_manager.bucket)
        upload == UploadEffect(channel)
        failure == CASE o.upload = "transport_error" -> "ConnectionError"
                     [] o.upload = "http_error" -> "HTTPError"
                     [] OTHER -> "RuntimeError"
    IN
    IF o.s3 # "ok"
    THEN [exc |-> "UnboundLocalError", effects |-> << download >>,
          relay |-> Relay("left", "UnboundLocalError", "ClientError")]
    ELSE IF o.upload = "ok"
    THEN [exc |-> "none", effects |-> << download, upload >>,
          relay |-> Relay("deleted", "none", "none")]
    ELSE [exc |-> failure, effects |-> << download, upload >>,
          relay |-> Relay("deleted", failure, failure)]

aws_s3_branch(action_id, value, channel_id, o) ==
    IF value.t = "num" THEN aws_inner_except("S3 error", channel_id, << >>, o)
    ELSE IF value.key = ""
    THEN aws_chat_then(Response("Missing S3 key", 400), "S3 error", channel_id,
                       "Error: S3 key not provided", << >>, o)
    ELSE IF action_id.s \in {s3_share_link, s3_share_image}
    THEN LET op == s3_operation("generate_presigned_url", o.s3)
         IN IF op.exc # "none" THEN aws_inner_except("S3 error", channel_id, op.effects, o)
            ELSE aws_chat_then(Response("", 200), "S3 error", channel_id, "blocks", op.effects, o)
    ELSE IF action_id.s = s3_upload
    THEN LET op == download_and_upload_to_slack(channel_id.s, o)
             r == IF op.exc # "none"
                  THEN aws_inner_except("S3 error", channel_id, op.effects, o)
                  ELSE aws_chat_then(Response("", 200), "S3 error", channel_id,
                                     "File uploaded", op.effects, o)
         IN [r EXCEPT !.relay = op.relay]
    ELSE aws_chat_then(ResponseWith("Unknown S3 action: ", action_id.s, 400), "S3 error",
                       channel_id, "Unknown S3 action", << >>, o)

aws_standard_branch(action_id, user_id, channel_id, o) ==
    IF action_id.s \in {send_channel_message, send_user_message, test_action}
    THEN LET c == aws_send_slack_message(
                    IF action_id.s = send_user_message THEN user_id ELSE channel_id,
                    DEFAULT_MESSAGE, o.chat1)
         IN IF c.exc = "none" THEN AwsResult(Response("", 200), c.effects)
            ELSE aws_outer_except(c.exc, "Missing required parameters", c.effects)
    ELSE AwsResult(ResponseWith("Unknown action_id: ", action_id.s, 400), << >>)

\* server_aws_example.py parse_payload has the code of server.py's
aws_parse_payload(req) == parse_payload(req)

aws_handle_actions(req, o) ==
    LET p == aws_parse_payload(req) IN
    IF p.exc # "none" THEN aws_outer_except("ValueError", p.msg, << >>)
    ELSE IF p.doc.t # "object" THEN aws_outer_except("AttributeError", "", << >>)
    ELSE LET actions == p.doc.actions IN
         IF actions.t = "str" \/ (actions.t = "list" /\ actions.first.t = "str")
         THEN aws_outer_except("AttributeError", "", << >>)
         ELSE LET action_id == IF actions.t = "list" /\ actions.first.t = "obj"
                               THEN actions.first.action_id
                               ELSE AbsentId
              IN
              IF ~Truthy(action_id)
              THEN AwsResult(Response("Missing action_id", 400), << >>)
              ELSE IF p.doc.user.t = "str" \/ p.doc.channel.t = "str"
                   THEN aws_outer_except("AttributeError", "", << >>)
              ELSE IF startswith(action_id.s, k8s_) /\ k8s_client
                   THEN aws_k8s_branch(action_id, p.doc.channel.id, o)
              ELSE IF startswith(action_id.s, s3_) /\ s3_manager.present
                   THEN aws_s3_branch(action_id, actions.first.value, p.doc.channel.id, o)
              ELSE aws_standard_branch(action_id, p.doc.user.id, p.doc.channel.id, o)

\* The JSON body of POST /slack/s3/share; a member that is missing is "".
ShareDoc(bucket, key, channel, mode) ==
    [t |-> "share", bucket |-> bucket, key |-> key, channel |-> channel, mode |-> mode]

\* str(e) of the exceptions that reach the except clause of share_s3_content
str_e(exc) ==
    CASE exc = "ValueError" -> "Missing required parameters"
      [] exc = "RuntimeError" -> "Slack API error: channel_not_found"
      [] exc = "ClientError" -> "An error occurred (NoSuchKey) when calling the GetObject operation"
      [] exc = "HTTPError" -> "403 Client Error: Forbidden for url: https://slack.com/api/files.upload"
      [] exc = "ConnectionError" -> "HTTPSConnectionPool(host='slack.com', port=443): Max retries exceeded"
      [] exc = "AttributeError" -> "'NoneType' object has no attribute 'get'"
      [] exc = "UnboundLocalError" -> "cannot access local variable 'tmp_path'"
      [] OTHER -> exc

\* The threads app.run serves requests with (Flask's development server is
\* threaded), and what one of them holds while it runs share_s3_content.
Threads == {"t1", "t2"}
NoShare == ShareDoc("", "", EmptyStr, "")
ShareThread(at, data, original_bucket, resp, made, rel) ==
    [pc |-> at, data |-> data, original_bucket |-> original_bucket, response |-> resp,
     effects |-> made, relay |-> rel]
IdleThread == ShareThread("idle", NoShare, "", NoResponse, << >>, NoRelay)
ShareResponded(resp, made, rel) == ShareThread("responded", NoShare, "", resp, made, rel)

\* what the outbound calls of share_s3_content do (it makes no K8s call and
\* sends no second chat message)
ShareOutcomes == {o \in AwsOutcomes : o.api = "ok" /\ o.chat2 = "ok"}

\* server_aws_example.py share_s3_content, the body of its inner try for the
\* request `data`: the exception that leaves it ("none" when it returns),
\* the response of the view, the outbound calls and the temporary file.
share_s3_content(data, o) ==
    LET op == IF data.mode = "upload" THEN download_and_upload_to_slack(data.channel, o)
              ELSE [exc |-> s3_operation("generate_presigned_url", o.s3).exc,
                    effects |-> s3_operation("generate_presigned_url", o.s3).effects,
                    relay |-> NoRelay]
        c == aws_send_slack_message(StrId(data.channel), "blocks", o.chat1)
    IN
    IF data.mode \notin {"link", "image", "upload"}
    THEN [response |-> ResponseWith("Invalid mode: ", EmptyStr, 400), effects |-> << >>,
          relay |-> NoRelay]
    ELSE IF op.exc # "none"
    THEN [response |-> Response(str_e(op.exc), 500), effects |-> op.effects, relay |-> op.relay]
    ELSE IF c.exc # "none"
    THEN [response |-> Response(str_e(c.exc), 500), effects |-> op.effects \o c.effects,
          relay |-> op.relay]
    ELSE [response |-> Response("", 200), effects |-> op.effects \o c.effects,
          relay |-> op.relay]

(***************************************************************************)
(* The requests the environment sends.                                     *)
(***************************************************************************)
Req(path, ts, sg, b) == [path |-> path, timestamp |-> ts, signature |-> sg, body |-> b]
NoRequest == Req("", MissingTimestamp, MissingSignature, EmptyBody)

Secrets == {"", "s1", "s2"}

Offsets == {-(ReplayWindow + 1), -ReplayWindow, 0, ReplayWindow, ReplayWindow + 1}
Timestamps ==
    {MissingTimestamp, TextTimestamp, HugeTimestamp}
        \cup {IntTimestamp(StartTime + d) : d \in Offsets}

\* 0xC3 0xA9 is the UTF-8 encoding of U+00E9; 0xFF never occurs in UTF-8
TextBytes == {195, 169, 255}
Texts == UNION {[1..n -> TextBytes] : n \in 0..MaxText}

\* the payload of test_server.py
SampleDoc ==
    ObjectDoc(ListActions(ObjAction(StrId(test_action))),
              ObjField(StrId(UserU1)), ObjField(StrId(ChannelC1)))

SignaturesFor(ts, b) ==
    {MissingSignature, BadSignature, NonAsciiSignature}
        \cup {sign_body(s, ts, b) : s \in Secrets}
        \cup {sign_body(SLACK_SIGNING_SECRET, IntTimestamp(StartTime), b),
              sign_body(SLACK_SIGNING_SECRET, ts, EmptyBody)}

\* requests that exercise the signature gate: every header combination,
\* with a few bodies
VerifierBodies == {EmptyBody} \cup {JsonBody(SampleDoc, x) : x \in Texts}
VerifierRequests ==
    UNION { {Req("/slack/actions", ts, sg, b) : sg \in SignaturesFor(ts, b)} :
            <<ts, b>> \in Timestamps \X VerifierBodies }

\* requests that exercise the dispatcher: signed by the holder of the
\* configured secret at the current time, with every payload shape
ActionIdVals ==
    {AbsentId} \cup {StrId(s) : s \in {EmptyStr, send_channel_message, send_user_message,
                                       test_action, bogus, test_pct_action}}
ActionsVals ==
    {AbsentActions, StrActions, ListActions(NoAction), ListActions(StrAction)}
        \cup {ListActions(ObjAction(a)) : a \in ActionIdVals}
UserVals == {AbsentField, StrField, ObjField(AbsentId), ObjField(StrId(UserU1))}
ChannelVals ==
    {AbsentField, StrField, ObjField(AbsentId)}
        \cup {ObjField(StrId(s)) : s \in {EmptyStr, ChannelC1, ChannelCplus1}}
Docs ==
    {NonObjectDoc(t) : t \in {"array", "string", "number", "null"}}
        \cup {ObjectDoc(a, u, c) : a \in ActionsVals, u \in UserVals, c \in ChannelVals}
HandlerBodies ==
    {EmptyBody, Body("text", NoDoc, << >>), Body("form_empty", NoDoc, << >>)}
        \cup {JsonBody(d, << >>) : d \in Docs} \cup {FormBody(d) : d \in Docs}
HandlerRequests ==
    {Req("/slack/actions", IntTimestamp(clock),
         sign_body(SLACK_SIGNING_SECRET, IntTimestamp(clock), b), b) : b \in HandlerBodies}

HealthRequest == Req("/", MissingTimestamp, MissingSignature, EmptyBody)

ServerRequests == VerifierRequests \cup HandlerRequests \cup {HealthRequest}

\* requests to server_aws_example.py: unsigned, or signed by Slack
AwsActionIds ==
    {k8s_deploy, k8s_bogus, s3_share_link, s3_upload, s3_bogus, test_action,
     send_user_message, bogus}
AwsValues == {NoValue, ObjValue("k"), ObjValue(""), TextValue, NumValue}
AwsDocs ==
    {NonObjectDoc("null"), ObjectDoc(AbsentActions, AbsentField, AbsentField)}
        \cup {ObjectDoc(ListActions(ObjActionWith(StrId(a), v)), ObjField(StrId(UserU1)), c) :
                a \in AwsActionIds, v \in AwsValues,
                c \in {AbsentField, ObjField(StrId(ChannelC1))}}
ShareDocs ==
    {NonObjectDoc("null")}
        \cup {ShareDoc(b, k, c, m) : b \in {"", "other-bucket"}, k \in {"", "k"},
                                     c \in {EmptyStr, ChannelC1}, m \in {"link", "upload", "bogus"}}
AwsHeaders ==
    {<<MissingTimestamp, MissingSignature>>, <<IntTimestamp(clock), BadSignature>>}
AwsRequests ==
    {Req("/slack/actions", h[1], h[2], JsonBody(d, << >>)) : h \in AwsHeaders, d \in AwsDocs}
        \cup {Req("/slack/actions", IntTimestamp(clock),
                  sign_body(SLACK_SIGNING_SECRET, IntTimestamp(clock), JsonBody(d, << >>)),
                  JsonBody(d, << >>)) : d \in AwsDocs}

(***************************************************************************)
(* Initial states: a process runs server.py or server_aws_example.py, with *)
(* the configuration its environment gave it.                              *)
(***************************************************************************)
Fresh ==
    /\ clock = StartTime
    /\ pc = "idle"
    /\ request = NoRequest
    /\ response = NoResponse
    /\ fault = "none"
    /\ gate = "none"
    /\ gate_time = StartTime
    /\ upstream = "none"
    /\ parsed = FALSE
    /\ handler_ran = FALSE
    /\ calls = << >>
    /\ effects = << >>
    /\ relay = NoRelay
    /\ threads = [t \in Threads |-> IdleThread]

InitServer ==
    /\ app = "server"
    /\ SLACK_SIGNING_SECRET \in {"", "s1"}
    /\ SLACK_BOT_TOKEN \in {"", "xoxb-token"}
    /\ DEFAULT_MESSAGE \in {"", "Hello"}
    /\ k8s_client = FALSE
    /\ s3_manager = [present |-> FALSE, bucket |-> ""]
    /\ Fresh

InitAws ==
    /\ app = "aws"
    /\ SLACK_SIGNING_SECRET = "s1"
    /\ SLACK_BOT_TOKEN \in {"", "xoxb-token"}
    /\ DEFAULT_MESSAGE = "Hello"
    /\ k8s_client \in BOOLEAN
    /\ s3_manager \in {[present |-> FALSE, bucket |-> ""], [present |-> TRUE, bucket |-> S3_BUCKET]}
    /\ Fresh

Init == InitServer \/ InitAws

(***************************************************************************)
(* Actions.                                                                *)
(***************************************************************************)
\* one second passes
Tick ==
    /\ clock < StartTime + MaxTick
    /\ clock' = clock + 1
    /\ UNCHANGED <<config, pc, request, response, fault, gate, gate_time, upstream, parsed,
                   handler_ran, calls, aws_vars>>

\* Flask starts on a request
Accept(r, at) ==
    /\ request' = r
    /\ pc' = at
    /\ UNCHANGED <<config, clock, response, fault, gate, gate_time, upstream, parsed,
                   handler_ran, calls, aws_vars>>

\* the response has been sent; the process waits for the next request (the
\* record of what was done for the last one is dropped)
Finish ==
    /\ pc = "responded"
    /\ pc' = "idle"
    /\ request' = NoRequest
    /\ response' = NoResponse
    /\ fault' = "none"
    /\ gate' = "none"
    /\ gate_time' = StartTime
    /\ upstream' = "none"
    /\ parsed' = FALSE
    /\ handler_ran' = FALSE
    /\ calls' = << >>
    /\ effects' = << >>
    /\ relay' = NoRelay
    /\ UNCHANGED <<config, clock, app, k8s_client, s3_manager, threads>>

\* server.py registers a before_request hook; server_aws_example.py none
Receive ==
    /\ app = "server"
    /\ pc = "idle"
    /\ \E r \in ServerRequests : Accept(r, "before_request")

\* server_aws_example.py takes up a POST to /slack/actions.  handle_actions
\* writes no shared state, so it is taken as one step, at a time when no
\* thread is inside share_s3_content.
AwsReceive ==
    /\ app = "aws"
    /\ pc = "idle"
    /\ \A t \in Threads : threads[t].pc = "idle"
    /\ \E r \in AwsRequests : Accept(r, "dispatch")

\* require_valid_slack_signature that logs a failed verification and returns
\* None, so that Flask goes on to the view
hook_without_401 ==
    /\ pc = "before_request"
    /\ IF request.path # "/slack/actions"
       THEN /\ pc' = "dispatch"
            /\ UNCHANGED <<response, fault, gate, gate_time>>
       ELSE LET v == _verify_slack_signature(request) IN
            /\ gate_time' = clock
            /\ IF v.exc # "none"
               THEN /\ gate' = "raise"
                    /\ fault' = v.exc
                    /\ response' = InternalServerError
                    /\ pc' = "responded"
               ELSE /\ gate' = IF v.ret THEN "accept" ELSE "reject"
                    /\ pc' = "dispatch"
                    /\ UNCHANGED <<response, fault>>
    /\ UNCHANGED <<config, clock, request, upstream, parsed, handler_ran, calls, aws_vars>>

\* server.py require_valid_slack_signature, and what Flask does with its
\* result: a response ends the request, None lets it go on to the view, and
\* an exception is answered with 500
require_valid_slack_signature ==
    /\ pc = "before_request"
    /\ IF request.path # "/slack/actions"
       THEN /\ pc' = "dispatch"
            /\ UNCHANGED <<response, fault, gate, gate_time>>
       ELSE LET v == _verify_slack_signature(request) IN
            /\ gate_time' = clock
            /\ IF v.exc # "none"
               THEN /\ gate' = "raise"
                    /\ fault' = v.exc
                    /\ response' = InternalServerError
                    /\ pc' = "responded"
               ELSE IF ~v.ret
               THEN /\ gate' = "reject"
                    /\ response' = Response("invalid signature", 401)
                    /\ pc' = "responded"
                    /\ UNCHANGED fault
               ELSE /\ gate' = "accept"
                    /\ pc' = "dispatch"
                    /\ UNCHANGED <<response, fault>>
    /\ UNCHANGED <<config, clock, request, upstream, parsed, handler_ran, calls, aws_vars>>

\* server.py POST /slack/actions
HandleActions ==
    /\ app = "server"
    /\ pc = "dispatch"
    /\ request.path = "/slack/actions"
    /\ \E outcome \in UpstreamOutcomes :
         LET r == handle_actions(request, outcome) IN
         /\ response' = r.response
         /\ fault' = r.exc
         /\ calls' = r.calls
         /\ upstream' = IF r.calls = << >> THEN "none" ELSE outcome
    /\ handler_ran' = TRUE
    /\ parsed' = TRUE
    /\ pc' = "responded"
    /\ UNCHANGED <<config, clock, request, gate, gate_time, aws_vars>>

\* server.py GET /
health ==
    /\ app = "server"
    /\ pc = "dispatch"
    /\ request.path = "/"
    /\ response' = Response("Slack Interactive Server Running", 200)
    /\ handler_ran' = TRUE
    /\ pc' = "responded"
    /\ UNCHANGED <<config, clock, request, fault, gate, gate_time, upstream, parsed, calls, aws_vars>>

\* server_aws_example.py POST /slack/actions
AwsHandleActions ==
    /\ app = "aws"
    /\ pc = "dispatch"
    /\ request.path = "/slack/actions"
    /\ \E o \in AwsOutcomes :
         LET r == aws_handle_actions(request, o) IN
         /\ response' = r.response
         /\ effects' = r.effects
         /\ relay' = r.relay
    /\ handler_ran' = TRUE
    /\ parsed' = TRUE
    /\ pc' = "responded"
    /\ UNCHANGED <<config, clock, request, fault, gate, gate_time, upstream, calls, app,
                   k8s_client, s3_manager, threads>>

\* server_aws_example.py POST /slack/s3/share, lines 209-224: a thread takes
\* up a request, checks it and reads the manager's bucket
ShareEnter(t) ==
    /\ app = "aws"
    /\ pc = "idle"
    /\ threads[t].pc = "idle"
    /\ \E data \in ShareDocs :
         threads' = [threads EXCEPT ![t] =
            IF ~s3_manager.present
            THEN ShareResponded(Response("S3 manager not configured", 503), << >>, NoRelay)
            ELSE IF data.t # "share"
            THEN ShareResponded(Response(str_e("AttributeError"), 500), << >>, NoRelay)
            ELSE IF data.bucket = "" \/ data.key = "" \/ data.channel = EmptyStr
            THEN ShareResponded(Response("Missing required fields: bucket, key, channel", 400),
                                << >>, NoRelay)
            ELSE ShareThread("saved", data, s3_manager.bucket, NoResponse, << >>, NoRelay)]
    /\ UNCHANGED <<server_vars, app, k8s_client, s3_manager, effects, relay>>

\* line 225: s3_manager.bucket = bucket
ShareOverride(t) ==
    /\ threads[t].pc = "saved"
    /\ s3_manager' = [s3_manager EXCEPT !.bucket = threads[t].data.bucket]
    /\ threads' = [threads EXCEPT ![t].pc = "try"]
    /\ UNCHANGED <<server_vars, app, k8s_client, effects, relay>>

\* lines 227-241: the S3 operation on the manager's bucket and the chat message
ShareTry(t) ==
    /\ threads[t].pc = "try"
    /\ \E o \in ShareOutcomes :
         LET r == share_s3_content(threads[t].data, o) IN
         threads' = [threads EXCEPT ![t] =
            ShareThread("finally", NoShare, @.original_bucket, r.response, r.effects, r.relay)]
    /\ UNCHANGED <<server_vars, app, k8s_client, s3_manager, effects, relay>>

\* lines 242-249: s3_manager.bucket = original_bucket, then the response
ShareFinally(t) ==
    /\ threads[t].pc = "finally"
    /\ s3_manager' = [s3_manager EXCEPT !.bucket = threads[t].original_bucket]
    /\ threads' = [threads EXCEPT ![t] = ShareResponded(@.response, @.effects, @.relay)]
    /\ UNCHANGED <<server_vars, app, k8s_client, effects, relay>>

\* the response has been sent; the thread is free again
ShareFinish(t) ==
    /\ threads[t].pc = "responded"
    /\ threads' = [threads EXCEPT ![t] = IdleThread]
    /\ UNCHANGED <<server_vars, app, k8s_client, s3_manager, effects, relay>>

Next ==
    \/ Tick
    \/ Receive
    \/ require_valid_slack_signature
    \/ HandleActions
    \/ health
    \/ AwsReceive
    \/ AwsHandleActions
    \/ \E t \in Threads : ShareEnter(t)
    \/ \E t \in Threads : ShareOverride(t)
    \/ \E t \in Threads : ShareTry(t)
    \/ \E t \in Threads : ShareFinally(t)
    \/ \E t \in Threads : ShareFinish(t)
    \/ Finish

Spec == Init /\ [][Next]_vars

(***************************************************************************)
(* Properties.                                                             *)
(***************************************************************************)
ActionsPath(r) == r.path = "/slack/actions"

\* the first action identifier of the payload the sender serialised, when
\* the payload is an object whose "actions" is a list that starts with an
\* object carrying a string "action_id"
SentDoc == SentPayload(request.body)
HasPayloadObject == request.body.enc \in {"json", "form"} /\ SentDoc.t = "object"
HasFirstActionId ==
    /\ HasPayloadObject
    /\ SentDoc.actions.t = "list"
    /\ SentDoc.actions.first.t = "obj"
    /\ SentDoc.actions.first.action_id.t = "str"
    /\ SentDoc.actions.first.action_id.s # EmptyStr
FirstActionId == SentDoc.actions.first.action_id.s
HandlerNames == {send_channel_message, send_user_message, test_action}

\* the view of server.py has answered a request that passed the gate
Verified == app = "server" /\ ActionsPath(request) /\ gate = "accept" /\ pc = "responded"

\* C1: in server.py, a POST to /slack/actions for which
\* _verify_slack_signature returned False is answered 401, its body is never
\* parsed, handle_actions never runs and no chat message is sent.
C1_RejectedIs401 ==
    (app = "server" /\ gate = "reject") =>
        /\ pc = "responded"
        /\ response.status = 401
        /\ ~parsed
        /\ ~handler_ran
        /\ calls = << >>

\* C1 happens: a fresh request with a wrong signature has been turned away
C1_Witness ==
    /\ app = "server" /\ pc = "responded" /\ gate = "reject"
    /\ ActionsPath(request)
    /\ request.signature = BadSignature
    /\ request.timestamp = IntTimestamp(gate_time)
    /\ SLACK_SIGNING_SECRET # ""

\* C2: in server_aws_example.py no view (POST /slack/actions with its K8s,
\* S3 and chat branches, POST /slack/s3/share) runs, and no outbound call is
\* made, for a request that has not passed signature verification.
C2_AwsViewsGated ==
    (app = "aws" /\ (handler_ran \/ effects # << >>)) => gate = "accept"

\* C3: a request whose timestamp is the current time and whose signature is
\* "v0=" + hex(HMAC-SHA256(S, "v0:" + timestamp + ":" + body)) for the
\* configured secret S is accepted, whatever the body.  Stated for a
\* verifier whose secret is set: with an empty secret every request is
\* rejected (C5), so the claim fails there for any body.
C3_RoundTripAccepted ==
    (/\ app = "server" /\ gate # "none"
     /\ SLACK_SIGNING_SECRET # ""
     /\ request.timestamp = IntTimestamp(gate_time)
     /\ request.signature = sign_body(SLACK_SIGNING_SECRET, request.timestamp, request.body))
        => gate = "accept"

\* the timestamp header is an integer more than ReplayWindow seconds away
\* from the time the verifier read
BeyondWindow ==
    \/ request.timestamp.kind = "huge"
    \/ /\ request.timestamp.kind = "int"
       /\ Abs(gate_time - request.timestamp.val) > ReplayWindow

\* C4: a request whose timestamp is more than 300 seconds from now, in
\* either direction, is rejected even though its signature is the correct
\* one for that timestamp and body.
C4_StaleRejected ==
    (/\ app = "server" /\ gate # "none"
     /\ BeyondWindow
     /\ request.signature = sign_body(SLACK_SIGNING_SECRET, request.timestamp, request.body))
        => gate = "reject"

\* C5: with an empty signing secret the verifier rejects every request, also
\* one that is fresh and signed with the empty secret.
C5_EmptySecretRejects ==
    (app = "server" /\ SLACK_SIGNING_SECRET = "" /\ gate # "none") => gate = "reject"

\* C5 happens: a fresh request signed with the empty secret was rejected
C5_Witness ==
    /\ app = "server" /\ SLACK_SIGNING_SECRET = "" /\ gate = "reject"
    /\ request.timestamp = IntTimestamp(gate_time)
    /\ request.signature = sign_body("", request.timestamp, request.body)

MissingOrMalformedHeaders ==
    \/ request.timestamp.kind = "missing"
    \/ request.signature.kind = "missing"
    \/ request.timestamp.kind = "text"

\* C6: a request to /slack/actions without a timestamp header, without a
\* signature header, or with a timestamp that is no integer is rejected
\* without an unhandled exception, and answered 401.
C6_MissingHeadersRejected ==
    (/\ app = "server" /\ ActionsPath(request) /\ pc \in {"dispatch", "responded"}
     /\ MissingOrMalformedHeaders)
        => /\ pc = "responded"
           /\ gate = "reject"
           /\ fault = "none"
           /\ response.status = 401

\* C6 happens: the secret is set, the signature header is present, and the
\* timestamp header is not an integer
C6_Witness ==
    /\ app = "server" /\ pc = "responded" /\ ActionsPath(request)
    /\ SLACK_SIGNING_SECRET # ""
    /\ request.timestamp.kind = "text"
    /\ request.signature.kind # "missing"
    /\ response.status = 401

\* C7: whatever the timestamp header, the signature header and the body,
\* _verify_slack_signature returns True or False and never raises; no
\* request leaves the gate with an exception or a status other than 401.
C7_VerifierNeverRaises ==
    (app = "server" /\ gate # "none") =>
        /\ gate \in {"accept", "reject"}
        /\ gate = "reject" => response.status = 401

\* the body is empty, is no JSON text, is JSON but no object, or is an
\* object whose actions, user or channel member has the wrong shape
MalformedPayload ==
    \/ request.body.enc \in {"none", "text", "form_empty"}
    \/ SentDoc.t # "object"
    \/ SentDoc.actions.t = "str"
    \/ SentDoc.actions.t = "list" /\ SentDoc.actions.first.t = "str"
    \/ SentDoc.user.t = "str"
    \/ SentDoc.channel.t = "str"

\* the member of the payload the message of the first action goes to
TargetId == IF FirstActionId = send_user_message THEN SentDoc.user.id ELSE SentDoc.channel.id

\* C8: for a verified request whose first action is send_channel_message or
\* test_action, exactly one chat message is sent, to the payload's
\* channel.id; for send_user_message exactly one, to the payload's user.id;
\* when the call succeeds the response is 200 with an empty body.  Stated
\* for a well-formed payload that carries that id and a process that has a
\* bot token and a message text, without which send_slack_message sends
\* nothing.
C8_OneMessageToTarget ==
    (/\ Verified /\ HasFirstActionId /\ FirstActionId \in HandlerNames
     /\ ~MalformedPayload
     /\ Truthy(TargetId)
     /\ SLACK_BOT_TOKEN # "" /\ DEFAULT_MESSAGE # "")
        => /\ Len(calls) = 1
           /\ calls[1].channel = TargetId.s
           /\ upstream = "ok" => response = Response("", 200)

\* C9: a verified request whose first action identifier is none of the
\* handler names, or whose actions list is empty or absent, or whose first
\* action has no action_id, is answered 400 and sends no chat message.
\* Stated for payloads whose members have the right shape (the others are
\* C10's).
C9_UnknownActionIs400 ==
    (/\ Verified /\ HasPayloadObject /\ ~MalformedPayload
     /\ \/ HasFirstActionId /\ FirstActionId \notin HandlerNames
        \/ SentDoc.actions.t = "absent"
        \/ SentDoc.actions.t = "list" /\ SentDoc.actions.first.t = "none"
        \/ /\ SentDoc.actions.t = "list" /\ SentDoc.actions.first.t = "obj"
           /\ SentDoc.actions.first.action_id.t = "absent")
        => response.status = 400 /\ calls = << >>

\* C10: a verified request with a malformed payload is answered 400 and
\* sends no chat message; it never ends in a 500 or an uncaught exception.
C10_MalformedIs400 ==
    (Verified /\ MalformedPayload) =>
        /\ response.status = 400
        /\ calls = << >>
        /\ fault = "none"

\* the handler names server_aws_example.py dispatches on
AwsHandlerNames ==
    {k8s_deploy, k8s_scale, k8s_status, k8s_logs, k8s_restart,
     s3_share_link, s3_share_image, s3_upload,
     send_channel_message, send_user_message, test_action}

\* C11: in server_aws_example.py a request whose first action identifier is
\* none of the handler names (one that only starts with k8s_ or s3_
\* included) is answered 400 and makes no outbound call: no K8s API call, no
\* S3 operation, no chat message.
C11_AwsUnknownActionIs400 ==
    (/\ app = "aws" /\ pc = "responded" /\ ActionsPath(request)
     /\ HasFirstActionId /\ FirstActionId \notin AwsHandlerNames)
        => response.status = 400 /\ effects = << >>

\* the bodies of the 500 responses the source writes as literals, and the
\* page Flask sends for an exception that leaves a view
GenericBodies ==
    {"Internal server error", "K8s API error", "S3 error", InternalServerError.body}
IsGeneric(resp) == resp.body \in GenericBodies /\ resp.detail = EmptyStr

\* C12: every response with status 500, from any endpoint of server.py or
\* server_aws_example.py, has one of the fixed generic bodies: the text of
\* the exception that caused it is not in the response.
C12_GenericBodyOn500 ==
    /\ (pc = "responded" /\ response.status = 500) => IsGeneric(response)
    /\ \A t \in Threads :
         (threads[t].pc = "responded" /\ threads[t].response.status = 500)
            => IsGeneric(threads[t].response)

\* what download_and_upload_to_slack left behind when it was called
CleanRelay(rel) == rel.tmp # "none" => (rel.tmp = "deleted" /\ rel.raised = rel.cause)

\* C13: whenever download_and_upload_to_slack has been called - from the
\* s3_upload action or from /slack/s3/share in upload mode - and has
\* returned or raised, the temporary file it created is gone and the
\* exception that left it is the failure that happened (the S3 download
\* error, the transport error, the HTTP error or the ok=false error).
C13_TempFileDeleted ==
    /\ CleanRelay(relay)
    /\ \A t \in Threads : CleanRelay(threads[t].relay)

\* C14: when no request to /slack/s3/share is in flight, the bucket of the
\* shared S3 manager is the one configured at startup, whatever the order in
\* which the threads that served such requests took their steps.
C14_BucketRestored ==
    (/\ app = "aws" /\ s3_manager.present
     /\ \A t \in Threads : threads[t].pc \in {"idle", "responded"})
        => s3_manager.bucket = S3_BUCKET

\* _verify_slack_signature got as far as computing the expected signature
ReachedHashing ==
    /\ app = "server" /\ ActionsPath(request) /\ gate \in {"accept", "reject"}
    /\ SLACK_SIGNING_SECRET # ""
    /\ request.timestamp.kind = "int" /\ request.signature.kind # "missing"
    /\ Abs(gate_time - request.timestamp.val) <= ReplayWindow

\* C15: the bytes the verifier hands to HMAC-SHA256 are "v0:" + the
\* timestamp header + ":" + the bytes of the request body as received,
\* for every body, valid UTF-8 or not.
C15_HashesRawBody ==
    ReachedHashing => signing_payload(request) = BaseString(request.timestamp, request.body)

====
